---- MODULE Spec2Model ----
(***************************************************************************)
(* Model of the ledger engine of src/src/main.rs (struct Bank and its      *)
(* methods create_account, get_balance, deposit, withdraw, transfer).      *)
(*                                                                         *)
(* Amounts are f64 in the source.  An f64 value is modelled on the         *)
(* sub-domain of the finite integer-valued doubles  hi * 2^53 + lo  with   *)
(* small hi and lo, as the record [hi, lo].  On that sub-domain addition   *)
(* is computed as IEEE-754 binary64 computes it: the exact sum rounded to  *)
(* the nearest double, ties to the even mantissa.  -0.0 and 0.0 compare    *)
(* equal in the source and are both [hi |-> 0, lo |-> 0].                  *)
(***************************************************************************)
EXTENDS Integers, Sequences, FiniteSets, TLC

VARIABLES bank, now, last, prev, funded, created

vars == <<bank, now, last, prev, funded, created>>

(***************************************************************************)
(* Bounds of the model.                                                    *)
(***************************************************************************)
MaxAccounts == 2
MaxOps == 3

(***************************************************************************)
(* f64 on the sub-domain hi * 2^53 + lo.                                   *)
(***************************************************************************)
F(h, l) == [hi |-> h, lo |-> l]

Zero == F(0, 0)

Neg(a) == F(-a.hi, -a.lo)

Lt(a, b) == a.hi < b.hi \/ (a.hi = b.hi /\ a.lo < b.lo)

Ge(a, b) == ~Lt(a, b)

\* the real-number sum, not rounded
Exact(a, b) == F(a.hi + b.hi, a.lo + b.lo)

RECURSIVE Pow2(_)
Pow2(k) == IF k = 0 THEN 1 ELSE 2 * Pow2(k - 1)

RECURSIVE Log2(_)
Log2(h) == IF h <= 1 THEN 0 ELSE 1 + Log2(h \div 2)

\* spacing of the doubles around the positive real hi * 2^53 + lo, hi >= 1
Ulp(x) ==
  LET k == Log2(x.hi)
  IN IF x.lo < 0 /\ Pow2(k) = x.hi THEN Pow2(k) ELSE Pow2(k + 1)

\* nearest multiple of u to l, ties to the even multiple
RoundToEven(l, u) ==
  LET q == l \div u
      r == l % u
  IN IF 2 * r < u THEN q * u
     ELSE IF 2 * r > u THEN (q + 1) * u
     ELSE IF q % 2 = 0 THEN q * u ELSE (q + 1) * u

RoundPos(x) == F(x.hi, RoundToEven(x.lo, Ulp(x)))

\* round-to-nearest-even of the real x to a double
Round(x) ==
  IF x.hi = 0 THEN x
  ELSE IF x.hi > 0 THEN RoundPos(x)
  ELSE Neg(RoundPos(Neg(x)))

\* f64 `+` and `-`
Add(a, b) == Round(Exact(a, b))

Sub(a, b) == Add(a, Neg(b))

(***************************************************************************)
(* Result<T, String>.  The error strings of the source are named by kind:  *)
(*   AccountNotFound          "Hesap bulunamadi: {id}"                     *)
(*   SenderNotFound           "Gonderen hesap bulunamadi: {id}"            *)
(*   RecipientNotFound        "Alici hesap bulunamadi: {id}"               *)
(*   InvalidPin               "Gecersiz PIN"                               *)
(*   InvalidCurrency          "Gecersiz para birimi: {code}"               *)
(*   CurrencyBalanceNotFound  "Bu para birimi icin bakiye bulunamadi: .."  *)
(*   InsufficientFunds        "Yetersiz bakiye"                            *)
(*   SameAccount              "Ayni hesaba transfer yapamazsiniz"          *)
(***************************************************************************)
Ok(v) == [ok |-> TRUE, val |-> v]

Err(e) == [ok |-> FALSE, err |-> e]

Failed(res, e) == ~res.ok /\ res.err = e

AccountNotFound == "AccountNotFound"
SenderNotFound == "SenderNotFound"
RecipientNotFound == "RecipientNotFound"
InvalidPin == "InvalidPin"
InvalidCurrency == "InvalidCurrency"
CurrencyBalanceNotFound == "CurrencyBalanceNotFound"
InsufficientFunds == "InsufficientFunds"
SameAccount == "SameAccount"

\* Option::unwrap on None: the thread panics, no Result is returned
Panicked == "panicked at Option::unwrap()"

\* transaction_type strings
OpenAccount == <<"Hesap Acilisi">>
Deposit == <<"Para Yatirma">>
Withdraw == <<"Para Cekme">>
TransferType(n) == <<"Transfer (Hesap {})", n>>

Currency(code, name, symbol) == [code |-> code, name |-> name, symbol |-> symbol]

Transaction(date, transaction_type, amount, balance, currency) ==
  [date |-> date, transaction_type |-> transaction_type, amount |-> amount,
   balance |-> balance, currency |-> currency]

Account(id, owner, balances, pin, transactions) ==
  [id |-> id, owner |-> owner, balances |-> balances, pin |-> pin,
   transactions |-> transactions]

\* HashMap::insert
Insert(m, k, v) == (k :> v) @@ m

EmptyMap == <<>>

\* Bank::new
new ==
  [accounts |-> EmptyMap,
   next_id |-> 1,
   currencies |->
     Insert(Insert(Insert(EmptyMap,
       "TRY", Currency("TRY", "Turk Lirasi", "TL")),
       "USD", Currency("USD", "Amerikan Dolari", "$")),
       "EUR", Currency("EUR", "Euro", "E"))]

\* verify_pin that compares nothing: any PIN opens an existing account
verify_pin_AnyPin(b, account_id, pin) ==
  IF account_id \notin DOMAIN b.accounts THEN Err(AccountNotFound)
  ELSE Ok("unit")

\* Bank::verify_pin
verify_pin(b, account_id, pin) ==
  IF account_id \notin DOMAIN b.accounts THEN Err(AccountNotFound)
  ELSE IF b.accounts[account_id].pin = pin THEN Ok("unit")
  ELSE Err(InvalidPin)

\* create_account that takes the id before it validates the currency
create_account_EagerId(b, owner, initial_balance, currency_code, pin, date) ==
  IF currency_code \notin DOMAIN b.currencies
  THEN [bank |-> [b EXCEPT !.next_id = b.next_id + 1], res |-> Err(InvalidCurrency)]
  ELSE
    LET id == b.next_id
        currency == b.currencies[currency_code]
        balances == Insert(EmptyMap, currency_code, initial_balance)
        initial_transaction ==
          Transaction(date, OpenAccount, initial_balance, initial_balance, currency)
        account == Account(id, owner, balances, pin, <<initial_transaction>>)
    IN [bank |-> [b EXCEPT !.next_id = id + 1,
                           !.accounts = Insert(b.accounts, id, account)],
        res |-> Ok(id)]

\* create_account whose opening transaction records a balance of 0.0
create_account_ZeroOpening(b, owner, initial_balance, currency_code, pin, date) ==
  IF currency_code \notin DOMAIN b.currencies
  THEN [bank |-> b, res |-> Err(InvalidCurrency)]
  ELSE
    LET id == b.next_id
        currency == b.currencies[currency_code]
        balances == Insert(EmptyMap, currency_code, initial_balance)
        initial_transaction ==
          Transaction(date, OpenAccount, initial_balance, Zero, currency)
        account == Account(id, owner, balances, pin, <<initial_transaction>>)
    IN [bank |-> [b EXCEPT !.next_id = id + 1,
                           !.accounts = Insert(b.accounts, id, account)],
        res |-> Ok(id)]

\* Bank::create_account
create_account(b, owner, initial_balance, currency_code, pin, date) ==
  IF currency_code \notin DOMAIN b.currencies
  THEN [bank |-> b, res |-> Err(InvalidCurrency)]
  ELSE
    LET id == b.next_id
        currency == b.currencies[currency_code]
        balances == Insert(EmptyMap, currency_code, initial_balance)
        initial_transaction ==
          Transaction(date, OpenAccount, initial_balance, initial_balance, currency)
        account == Account(id, owner, balances, pin, <<initial_transaction>>)
    IN [bank |-> [b EXCEPT !.next_id = id + 1,
                           !.accounts = Insert(b.accounts, id, account)],
        res |-> Ok(id)]

\* get_balance that reads a missing entry as 0.0 (unwrap_or(0.0))
get_balance_ZeroDefault(b, id, currency_code, pin) ==
  LET v == verify_pin(b, id, pin)
  IN IF ~v.ok THEN v
     ELSE IF id \notin DOMAIN b.accounts THEN Err(AccountNotFound)
     ELSE IF currency_code \notin DOMAIN b.accounts[id].balances THEN Ok(Zero)
     ELSE Ok(b.accounts[id].balances[currency_code])

\* Bank::get_balance
get_balance(b, id, currency_code, pin) ==
  LET v == verify_pin(b, id, pin)
  IN IF ~v.ok THEN v
     ELSE IF id \notin DOMAIN b.accounts THEN Err(AccountNotFound)
     ELSE IF currency_code \notin DOMAIN b.accounts[id].balances
          THEN Err(CurrencyBalanceNotFound)
     ELSE Ok(b.accounts[id].balances[currency_code])

\* balances.entry(code).or_insert(0.0)
OrInsertZero(balances, code) ==
  IF code \in DOMAIN balances THEN balances ELSE Insert(balances, code, Zero)

\* Bank::deposit
deposit(b, id, amount, currency_code, pin, date) ==
  LET v == verify_pin(b, id, pin)
  IN IF ~v.ok THEN [bank |-> b, res |-> v]
     ELSE IF currency_code \notin DOMAIN b.currencies
          THEN [bank |-> b, res |-> Err(InvalidCurrency)]
     ELSE IF id \in DOMAIN b.accounts
     THEN
       LET account == b.accounts[id]
           balance == Add(OrInsertZero(account.balances, currency_code)[currency_code], amount)
           currency == b.currencies[currency_code]
           tx == Transaction(date, Deposit, amount, balance, currency)
       IN [bank |-> [b EXCEPT !.accounts[id] =
                       [account EXCEPT
                          !.balances = Insert(account.balances, currency_code, balance),
                          !.transactions = Append(account.transactions, tx)]],
           res |-> Ok(balance)]
     ELSE [bank |-> b, res |-> Err(AccountNotFound)]

\* the comparison of withdraw with its operands swapped
HasFunds_Swapped(balance, amount) == Ge(amount, balance)

\* `*balance >= amount` of withdraw
HasFunds(balance, amount) == Ge(balance, amount)

\* Bank::withdraw
withdraw(b, id, amount, currency_code, pin, date) ==
  LET v == verify_pin(b, id, pin)
  IN IF ~v.ok THEN [bank |-> b, res |-> v]
     ELSE IF currency_code \notin DOMAIN b.currencies
          THEN [bank |-> b, res |-> Err(InvalidCurrency)]
     ELSE IF id \in DOMAIN b.accounts
     THEN
       LET account == b.accounts[id]
       IN IF currency_code \notin DOMAIN account.balances
          THEN [bank |-> b, res |-> Err(CurrencyBalanceNotFound)]
          ELSE IF HasFunds(account.balances[currency_code], amount)
          THEN
            LET balance == Sub(account.balances[currency_code], amount)
                currency == b.currencies[currency_code]
                tx == Transaction(date, Withdraw, Neg(amount), balance, currency)
            IN [bank |-> [b EXCEPT !.accounts[id] =
                            [account EXCEPT
                               !.balances = Insert(account.balances, currency_code, balance),
                               !.transactions = Append(account.transactions, tx)]],
                res |-> Ok(balance)]
          ELSE [bank |-> b, res |-> Err(InsufficientFunds)]
     ELSE [bank |-> b, res |-> Err(AccountNotFound)]

\* the sender's half that records the balance it read, not the one it wrote
Debit_StaleBalance(b, from_id, to_id, amount, currency_code, date, currency) ==
  IF from_id \in DOMAIN b.accounts
  THEN
    LET from_account == b.accounts[from_id]
        balance == Sub(from_account.balances[currency_code], amount)
        tx == Transaction(date, TransferType(to_id), Neg(amount),
                          from_account.balances[currency_code], currency)
    IN [b EXCEPT !.accounts[from_id] =
          [from_account EXCEPT
             !.balances = Insert(from_account.balances, currency_code, balance),
             !.transactions = Append(from_account.transactions, tx)]]
  ELSE b

\* the sender's half of transfer (lines 236-246)
Debit(b, from_id, to_id, amount, currency_code, date, currency) ==
  IF from_id \in DOMAIN b.accounts
  THEN
    LET from_account == b.accounts[from_id]
        balance == Sub(from_account.balances[currency_code], amount)
        tx == Transaction(date, TransferType(to_id), Neg(amount), balance, currency)
    IN [b EXCEPT !.accounts[from_id] =
          [from_account EXCEPT
             !.balances = Insert(from_account.balances, currency_code, balance),
             !.transactions = Append(from_account.transactions, tx)]]
  ELSE b

\* the receiver's half with get_mut in place of entry().or_insert(0.0): a
\* receiver without an entry for the currency is left as it is
Credit_ExistingOnly(b, from_id, to_id, amount, currency_code, date, currency) ==
  IF to_id \in DOMAIN b.accounts /\ currency_code \in DOMAIN b.accounts[to_id].balances
  THEN
    LET to_account == b.accounts[to_id]
        balance == Add(to_account.balances[currency_code], amount)
        tx == Transaction(date, TransferType(from_id), amount, balance, currency)
    IN [b EXCEPT !.accounts[to_id] =
          [to_account EXCEPT
             !.balances = Insert(to_account.balances, currency_code, balance),
             !.transactions = Append(to_account.transactions, tx)]]
  ELSE b

\* the receiver's half that builds a fresh balance map for the currency
Credit_WipesOthers(b, from_id, to_id, amount, currency_code, date, currency) ==
  IF to_id \in DOMAIN b.accounts
  THEN
    LET to_account == b.accounts[to_id]
        balance == Add(OrInsertZero(to_account.balances, currency_code)[currency_code], amount)
        tx == Transaction(date, TransferType(from_id), amount, balance, currency)
    IN [b EXCEPT !.accounts[to_id] =
          [to_account EXCEPT
             !.balances = Insert(EmptyMap, currency_code, balance),
             !.transactions = Append(to_account.transactions, tx)]]
  ELSE b

\* the receiver's half of transfer (lines 247-260)
Credit(b, from_id, to_id, amount, currency_code, date, currency) ==
  IF to_id \in DOMAIN b.accounts
  THEN
    LET to_account == b.accounts[to_id]
        balance == Add(OrInsertZero(to_account.balances, currency_code)[currency_code], amount)
        tx == Transaction(date, TransferType(from_id), amount, balance, currency)
    IN [b EXCEPT !.accounts[to_id] =
          [to_account EXCEPT
             !.balances = Insert(to_account.balances, currency_code, balance),
             !.transactions = Append(to_account.transactions, tx)]]
  ELSE b

\* the same-account check left out
IsSameAccount_Never(from_id, to_id) == FALSE

\* `from_id == to_id` of transfer
IsSameAccount(from_id, to_id) == from_id = to_id

\* transfer that validates the currency before it looks for the receiver
transfer_CurrencyFirst(b, from_id, to_id, amount, currency_code, pin, date) ==
  LET v == verify_pin(b, from_id, pin)
  IN IF ~v.ok THEN [bank |-> b, res |-> v]
     ELSE IF IsSameAccount(from_id, to_id) THEN [bank |-> b, res |-> Err(SameAccount)]
     ELSE IF from_id \notin DOMAIN b.accounts
          THEN [bank |-> b, res |-> Err(SenderNotFound)]
     ELSE IF currency_code \notin DOMAIN b.currencies
          THEN [bank |-> b, res |-> Err(InvalidCurrency)]
     ELSE IF to_id \notin DOMAIN b.accounts
          THEN [bank |-> b, res |-> Err(RecipientNotFound)]
     ELSE
       LET from_balance == get_balance(b, from_id, currency_code, pin)
       IN IF ~from_balance.ok THEN [bank |-> b, res |-> from_balance]
          ELSE IF Lt(from_balance.val, amount)
               THEN [bank |-> b, res |-> Err(InsufficientFunds)]
          \* balances.get_mut(currency_code).unwrap()
          ELSE IF currency_code \notin DOMAIN b.accounts[from_id].balances
               THEN [bank |-> b, res |-> Err(Panicked)]
          ELSE
            LET currency == b.currencies[currency_code]
                b1 == Debit(b, from_id, to_id, amount, currency_code, date, currency)
                b2 == Credit(b1, from_id, to_id, amount, currency_code, date, currency)
            IN [bank |-> b2, res |-> Ok("unit")]

\* Bank::transfer
transfer(b, from_id, to_id, amount, currency_code, pin, date) ==
  LET v == verify_pin(b, from_id, pin)
  IN IF ~v.ok THEN [bank |-> b, res |-> v]
     ELSE IF IsSameAccount(from_id, to_id) THEN [bank |-> b, res |-> Err(SameAccount)]
     ELSE IF from_id \notin DOMAIN b.accounts
          THEN [bank |-> b, res |-> Err(SenderNotFound)]
     ELSE IF to_id \notin DOMAIN b.accounts
          THEN [bank |-> b, res |-> Err(RecipientNotFound)]
     ELSE IF currency_code \notin DOMAIN b.currencies
          THEN [bank |-> b, res |-> Err(InvalidCurrency)]
     ELSE
       LET from_balance == get_balance(b, from_id, currency_code, pin)
       IN IF ~from_balance.ok THEN [bank |-> b, res |-> from_balance]
          ELSE IF Lt(from_balance.val, amount)
               THEN [bank |-> b, res |-> Err(InsufficientFunds)]
          \* balances.get_mut(currency_code).unwrap()
          ELSE IF currency_code \notin DOMAIN b.accounts[from_id].balances
               THEN [bank |-> b, res |-> Err(Panicked)]
          ELSE
            LET currency == b.currencies[currency_code]
                b1 == Debit(b, from_id, to_id, amount, currency_code, date, currency)
                b2 == Credit(b1, from_id, to_id, amount, currency_code, date, currency)
            IN [bank |-> b2, res |-> Ok("unit")]

(***************************************************************************)
(* The callers' inputs.                                                    *)
(***************************************************************************)
Big == F(1, 0)

Amounts == {F(0, -1), F(0, 1), Big}

\* a transfer of nothing is asked for as well
TransferAmounts == Amounts \cup {Zero}

Codes == {"TRY", "USD", "GBP"}

Pins == {"1234", "5678"}

Owner == "Ayse"

Ids == 1..MaxAccounts

\* the PIN the shell's user sets for the account that will get this id
OpenPin(id) == IF id % 2 = 1 THEN "1234" ELSE "5678"

\* no handler is running: the main loop is at its menu
NoCall == [op |-> "menu", args |-> <<>>, res |-> Ok("unit")]

AtMenu == last.op = "menu"

Init ==
  /\ bank = new
  /\ now = 0
  /\ last = NoCall
  /\ prev = new
  /\ funded = {}
  /\ created = 0

\* the (account, currency) pairs an operation that succeeded has funded
Funds(op, args, res) ==
  IF ~res.ok THEN {}
  ELSE IF op = "create_account" THEN {<<res.val, args.code>>}
  ELSE IF op = "deposit" THEN {<<args.id, args.code>>}
  ELSE IF op = "transfer" THEN {<<args.to, args.code>>}
  ELSE {}

\* one call of the engine: r is what the method returns and leaves behind
Call(op, args, r) ==
  /\ bank' = r.bank
  /\ prev' = bank
  /\ last' = [op |-> op, args |-> args, res |-> r.res]
  /\ now' = IF r.res.ok /\ op # "get_balance" THEN now + 1 ELSE now
  /\ funded' = funded \cup Funds(op, args, r.res)
  /\ created' = IF r.res.ok /\ op = "create_account" THEN created + 1 ELSE created

CreateAccount ==
  /\ AtMenu
  /\ bank.next_id <= MaxAccounts
  /\ now < MaxOps
  /\ \E initial_balance \in Amounts, code \in Codes :
       LET pin == OpenPin(bank.next_id)
       IN Call("create_account",
               [owner |-> Owner, amount |-> initial_balance, code |-> code, pin |-> pin],
               create_account(bank, Owner, initial_balance, code, pin, now))

GetBalance ==
  /\ AtMenu
  /\ \E id \in Ids, code \in Codes, pin \in Pins :
       Call("get_balance", [id |-> id, code |-> code, pin |-> pin],
            [bank |-> bank, res |-> get_balance(bank, id, code, pin)])

DepositOp ==
  /\ AtMenu
  /\ now < MaxOps
  /\ \E id \in Ids, amount \in Amounts, code \in Codes, pin \in Pins :
       Call("deposit", [id |-> id, amount |-> amount, code |-> code, pin |-> pin],
            deposit(bank, id, amount, code, pin, now))

WithdrawOp ==
  /\ AtMenu
  /\ now < MaxOps
  /\ \E id \in Ids, amount \in Amounts, code \in Codes, pin \in Pins :
       Call("withdraw", [id |-> id, amount |-> amount, code |-> code, pin |-> pin],
            withdraw(bank, id, amount, code, pin, now))

TransferOp ==
  /\ AtMenu
  /\ now < MaxOps
  /\ \E from_id \in Ids, to_id \in Ids, amount \in TransferAmounts, code \in Codes, pin \in Pins :
       Call("transfer",
            [id |-> from_id, to |-> to_id, amount |-> amount, code |-> code, pin |-> pin],
            transfer(bank, from_id, to_id, amount, code, pin, now))

\* the handler has returned and printed its result: back to the menu
Continue ==
  /\ ~AtMenu
  /\ last' = NoCall
  /\ prev' = bank
  /\ UNCHANGED <<bank, now, funded, created>>

Next ==
  CreateAccount \/ GetBalance \/ DepositOp \/ WithdrawOp \/ TransferOp \/ Continue

Spec == Init /\ [][Next]_vars

(***************************************************************************)
(* Vocabulary of the properties.                                           *)
(***************************************************************************)
Accounts(b) == DOMAIN b.accounts

Balances(b, id) == b.accounts[id].balances

Log(b, id) == b.accounts[id].transactions

BalanceOrZero(b, id, c) ==
  IF c \in DOMAIN Balances(b, id) THEN Balances(b, id)[c] ELSE Zero

\* the call that has just returned
Returned(op) == last.op = op

Succeeded(op) == last.op = op /\ last.res.ok

\* the caller named an account that existed and gave its PIN / another PIN
RightPin == last.args.id \in Accounts(prev) /\ last.args.pin = prev.accounts[last.args.id].pin

WrongPin == last.args.id \in Accounts(prev) /\ last.args.pin # prev.accounts[last.args.id].pin

\* the real-number sum of the amounts of the entries tagged c
RECURSIVE SumTagged(_, _)
SumTagged(log, c) ==
  IF Len(log) = 0 THEN Zero
  ELSE LET rest == SumTagged(Tail(log), c)
       IN IF Head(log).currency.code = c THEN Exact(Head(log).amount, rest) ELSE rest

\* C1: in every reachable state every balance entry equals the opening
\* balance in that currency (the amount of the OpenAccount entry, 0 without
\* one) plus the sum of the signed amounts of the log entries tagged with it.
C1_BalanceIsLedgerSum ==
  \A id \in Accounts(bank) : \A c \in DOMAIN Balances(bank, id) :
    Balances(bank, id)[c] = SumTagged(Log(bank, id), c)

\* C2: in every reachable state every balance entry of every account is
\* greater than or equal to zero.
C2_NoNegativeBalance ==
  \A id \in Accounts(bank) : \A c \in DOMAIN Balances(bank, id) :
    Ge(Balances(bank, id)[c], Zero)

\* C3: a transfer that succeeds leaves the sender's balance lower by exactly
\* amount and the receiver's balance (0 if it had no entry) higher by exactly
\* amount, so that the two balances add up to what they added up to before.
C3_TransferMovesExactly ==
  Succeeded("transfer") =>
    LET a == last.args.id
        b == last.args.to
        c == last.args.code
        amount == last.args.amount
    IN /\ Balances(bank, a)[c] = Exact(Balances(prev, a)[c], Neg(amount))
       /\ Balances(bank, b)[c] = Exact(BalanceOrZero(prev, b, c), amount)
       /\ Exact(Balances(bank, a)[c], Balances(bank, b)[c])
            = Exact(Balances(prev, a)[c], BalanceOrZero(prev, b, c))

\* one more entry than before, the old entries untouched
Appended(id) ==
  /\ Len(Log(bank, id)) = Len(Log(prev, id)) + 1
  /\ SubSeq(Log(bank, id), 1, Len(Log(prev, id))) = Log(prev, id)

Newest(id) == Log(bank, id)[Len(Log(bank, id))]

\* the sender's side / the receiver's side of the transfer that has returned
\* has been carried out
Debited ==
  LET a == last.args.id
      c == last.args.code
  IN /\ Appended(a)
     /\ Newest(a).amount = Neg(last.args.amount)
     /\ Balances(bank, a)[c] = Sub(Balances(prev, a)[c], last.args.amount)

Credited ==
  LET b == last.args.to
      c == last.args.code
  IN /\ Appended(b)
     /\ Newest(b).amount = last.args.amount
     /\ c \in DOMAIN Balances(bank, b)
     /\ Balances(bank, b)[c] = Add(BalanceOrZero(prev, b, c), last.args.amount)

\* C4: a transfer is all-or-nothing: after it returns Ok the sender's debit,
\* the receiver's credit and both log appends have happened; after it returns
\* Err the whole ledger is what it was before the call.
C4_TransferAllOrNothing ==
  Returned("transfer") =>
    IF last.res.ok THEN Debited /\ Credited ELSE bank = prev

\* a transfer has succeeded towards a receiver that had no entry in the currency
C4_Witness ==
  /\ Succeeded("transfer")
  /\ last.args.code \notin DOMAIN Balances(prev, last.args.to)

\* C5: get_balance, deposit, withdraw and transfer called for an existing
\* account with a PIN other than its stored PIN fail with InvalidPin and
\* leave the whole ledger (balances, logs, next_id) unchanged.
C5_WrongPinChangesNothing ==
  (last.op \in {"get_balance", "deposit", "withdraw", "transfer"} /\ WrongPin) =>
    Failed(last.res, InvalidPin) /\ bank = prev

\* a transfer that the receiver's PIN, not the sender's, was given to, and
\* that the sender's funds would have covered
C5_Witness ==
  /\ Returned("transfer")
  /\ WrongPin
  /\ last.args.to \in Accounts(prev)
  /\ last.args.to # last.args.id
  /\ last.args.pin = prev.accounts[last.args.to].pin
  /\ last.args.code \in DOMAIN Balances(prev, last.args.id)
  /\ Ge(Balances(prev, last.args.id)[last.args.code], last.args.amount)
  /\ Failed(last.res, InvalidPin)

\* C6 as claimed: transfer(A, A, ...) fails with SameAccount for every id,
\* amount, currency and PIN.
C6_SelfTransferIsSameAccount ==
  (Returned("transfer") /\ last.args.id = last.args.to) =>
    Failed(last.res, SameAccount)

\* C6 as amended: transfer(A, A, ...) never succeeds and changes nothing; it
\* fails with AccountNotFound when A does not exist, with InvalidPin when the
\* PIN is not A's, and with SameAccount otherwise, whatever the amount and
\* the currency code.
C6_SelfTransferFails ==
  (Returned("transfer") /\ last.args.id = last.args.to) =>
    /\ bank = prev
    /\ IF last.args.id \notin Accounts(prev) THEN Failed(last.res, AccountNotFound)
       ELSE IF WrongPin THEN Failed(last.res, InvalidPin)
       ELSE Failed(last.res, SameAccount)

\* a self-transfer with the right PIN, in a currency the registry lacks
C6_Witness ==
  /\ Returned("transfer")
  /\ last.args.id = last.args.to
  /\ RightPin
  /\ last.args.code \notin DOMAIN prev.currencies
  /\ Failed(last.res, SameAccount)

\* C7: withdraw(id, a, C, correct pin) with C supported, a balance entry b
\* for C and a > b fails with InsufficientFunds and leaves every balance and
\* every log unchanged.
C7_OverdrawRefused ==
  (/\ Returned("withdraw")
   /\ RightPin
   /\ last.args.code \in DOMAIN prev.currencies
   /\ last.args.code \in DOMAIN Balances(prev, last.args.id)
   /\ Lt(Balances(prev, last.args.id)[last.args.code], last.args.amount)) =>
    Failed(last.res, InsufficientFunds) /\ bank = prev

\* an overdraw of an account that has a log of two entries
C7_Witness ==
  /\ Returned("withdraw")
  /\ RightPin
  /\ last.args.code \in DOMAIN Balances(prev, last.args.id)
  /\ Lt(Balances(prev, last.args.id)[last.args.code], last.args.amount)
  /\ Len(Log(prev, last.args.id)) = 2
  /\ Failed(last.res, InsufficientFunds)

\* C8: an account has a balance entry for C exactly when an earlier
\* operation funded it in C (opened in C, a successful deposit in C, the
\* receiver of a successful transfer in C); get_balance with the correct PIN
\* fails with CurrencyBalanceNotFound exactly when the account was never
\* funded in C and otherwise returns the stored balance, zero included.
C8_BalanceExistsIffFunded ==
  /\ \A id \in Accounts(bank) : \A c \in Codes \cup DOMAIN bank.currencies :
       c \in DOMAIN Balances(bank, id) <=> <<id, c>> \in funded
  /\ (Returned("get_balance") /\ RightPin) =>
       IF <<last.args.id, last.args.code>> \in funded
       THEN last.res = Ok(Balances(bank, last.args.id)[last.args.code])
       ELSE Failed(last.res, CurrencyBalanceNotFound)

\* get_balance has returned a stored balance of zero
C8_Witness ==
  /\ Succeeded("get_balance")
  /\ last.res.val = Zero
  /\ \E id \in Accounts(bank) : \E c \in DOMAIN bank.currencies :
       <<id, c>> \notin funded

\* C9: next_id is 1 at the start and one more than the number of successful
\* create_account calls ever after; a successful create_account returns the
\* old next_id, which is the number of that success and no existing id, and
\* advances next_id by exactly 1 without touching an existing account; a
\* create_account that fails fails with InvalidCurrency and leaves next_id,
\* as every other operation does.
C9_IdsNeverReused ==
  /\ bank.next_id = created + 1
  /\ bank.next_id >= prev.next_id
  /\ Accounts(prev) \subseteq Accounts(bank)
  /\ IF Succeeded("create_account")
     THEN /\ last.res.val = prev.next_id
          /\ last.res.val = created
          /\ last.res.val \notin Accounts(prev)
          /\ bank.next_id = prev.next_id + 1
          /\ \A id \in Accounts(prev) : bank.accounts[id] = prev.accounts[id]
     ELSE /\ bank.next_id = prev.next_id
          /\ Returned("create_account") => Failed(last.res, InvalidCurrency)

\* the second account has been created, after a deposit on the first
C9_Witness ==
  /\ Succeeded("create_account")
  /\ last.res.val = 2
  /\ Len(Log(prev, 1)) = 2

\* C10: a successful create_account adds exactly one account; its balance
\* map is exactly {code -> initial_balance}, its log exactly one OpenAccount
\* entry with amount and resulting balance initial_balance in currency code;
\* every account that existed is unchanged.
C10_CreateAddsOneAccount ==
  Succeeded("create_account") =>
    LET id == last.res.val
    IN /\ id \notin Accounts(prev)
       /\ Accounts(bank) = Accounts(prev) \cup {id}
       /\ DOMAIN Balances(bank, id) = {last.args.code}
       /\ Balances(bank, id)[last.args.code] = last.args.amount
       /\ Len(Log(bank, id)) = 1
       /\ Log(bank, id)[1].transaction_type = OpenAccount
       /\ Log(bank, id)[1].amount = last.args.amount
       /\ Log(bank, id)[1].balance = last.args.amount
       /\ Log(bank, id)[1].currency.code = last.args.code
       /\ \A other \in Accounts(prev) : bank.accounts[other] = prev.accounts[other]

\* an account has been created next to one that has a log of two entries
C10_Witness ==
  /\ Succeeded("create_account")
  /\ \E other \in Accounts(prev) : Len(Log(prev, other)) = 2

\* the positions of the entries of a log tagged with currency c
Tagged(log, c) == {i \in 1..Len(log) : log[i].currency.code = c}

Latest(S) == CHOOSE i \in S : \A j \in S : j <= i

\* C11: every entry records the account's balance in its currency as it is
\* right after the operation that appended it, so in every reachable state
\* the most recent entry tagged C of an account with a balance entry for C
\* has a resulting balance equal to the current balance of C.
C11_LatestEntryHasBalance ==
  /\ \A id \in Accounts(bank) : \A c \in DOMAIN Balances(bank, id) :
       /\ Tagged(Log(bank, id), c) # {}
       /\ Log(bank, id)[Latest(Tagged(Log(bank, id), c))].balance = Balances(bank, id)[c]
  /\ (Succeeded("deposit") \/ Succeeded("withdraw") \/ Succeeded("transfer")) =>
       Newest(last.args.id).balance = Balances(bank, last.args.id)[last.args.code]
  /\ Succeeded("transfer") =>
       Newest(last.args.to).balance = Balances(bank, last.args.to)[last.args.code]

\* a deposit has changed a balance of an account whose most recent entry in
\* another currency is not the last entry of its log
C11_Witness ==
  /\ Succeeded("deposit")
  /\ Balances(bank, last.args.id) # Balances(prev, last.args.id)
  /\ \E c \in DOMAIN Balances(bank, last.args.id) :
       Latest(Tagged(Log(bank, last.args.id), c)) < Len(Log(bank, last.args.id))

LogsUnchanged(ids) == \A id \in ids : Log(bank, id) = Log(prev, id)

\* C12: every log is append-only: the log before a step is a prefix of the
\* log after it; a successful deposit or withdraw appends exactly one entry
\* to the target account, a successful transfer exactly one to the sender and
\* one to the receiver, a failed operation or a get_balance none.
C12_LogsAppendOnly ==
  /\ \A id \in Accounts(prev) :
       /\ id \in Accounts(bank)
       /\ Len(Log(prev, id)) <= Len(Log(bank, id))
       /\ SubSeq(Log(bank, id), 1, Len(Log(prev, id))) = Log(prev, id)
  /\ (Succeeded("deposit") \/ Succeeded("withdraw")) =>
       Appended(last.args.id) /\ LogsUnchanged(Accounts(prev) \ {last.args.id})
  /\ Succeeded("transfer") =>
       /\ Appended(last.args.id)
       /\ Appended(last.args.to)
       /\ LogsUnchanged(Accounts(prev) \ {last.args.id, last.args.to})
  /\ (~last.res.ok \/ Returned("get_balance")) => LogsUnchanged(Accounts(prev))

\* a transfer has appended to the log of a receiver without an entry for the
\* currency
C12_Witness ==
  /\ Succeeded("transfer")
  /\ last.args.code \notin DOMAIN Balances(prev, last.args.to)
  /\ Len(Log(bank, last.args.to)) = 2

\* the kind of an entry (its transaction_type without the account number)
\* and the account its transaction_type names
Kind(tx) == tx.transaction_type[1]

Counterparty(tx) == tx.transaction_type[2]

\* C13: a successful transfer appends to the sender's log an entry naming
\* to_id and to the receiver's log an entry naming from_id, with the same
\* timestamp and currency, signed amounts -amount and +amount, and kinds
\* (TransferOut, TransferIn) that tell the outgoing side from the incoming.
C13_TransferEntries ==
  Succeeded("transfer") =>
    LET out == Newest(last.args.id)
        in == Newest(last.args.to)
    IN /\ Counterparty(out) = last.args.to
       /\ Counterparty(in) = last.args.id
       /\ out.date = in.date
       /\ out.currency = in.currency
       /\ out.currency.code = last.args.code
       /\ out.amount = Neg(last.args.amount)
       /\ in.amount = last.args.amount
       /\ Kind(out) # Kind(in)

\* C15: deposit with the correct PIN on an existing account succeeds in a
\* supported currency: the balance becomes old balance (0 without an entry)
\* plus amount, that balance is returned, and one Deposit entry with amount
\* +amount and that resulting balance is appended; with an unsupported code
\* it fails with InvalidCurrency and creates no balance entry.
C15_Deposit ==
  (Returned("deposit") /\ RightPin) =>
    LET id == last.args.id
        c == last.args.code
    IN IF c \in DOMAIN prev.currencies
       THEN /\ last.res.ok
            /\ Balances(bank, id)[c] = Exact(BalanceOrZero(prev, id, c), last.args.amount)
            /\ last.res.val = Balances(bank, id)[c]
            /\ Appended(id)
            /\ Newest(id).transaction_type = Deposit
            /\ Newest(id).amount = last.args.amount
            /\ Newest(id).balance = last.res.val
       ELSE Failed(last.res, InvalidCurrency) /\ bank = prev

NotFound(res) ==
  ~res.ok /\ res.err \in {AccountNotFound, SenderNotFound, RecipientNotFound}

\* C16: a transfer that violates several preconditions fails with the error
\* of the first failing check in the order: sender missing (AccountNotFound),
\* sender PIN wrong (InvalidPin), from_id = to_id (SameAccount), receiver
\* missing (AccountNotFound), currency unsupported (InvalidCurrency), sender
\* balance less than amount (InsufficientFunds); the ledger is unchanged.
C16_TransferErrorOrder ==
  Returned("transfer") =>
    LET a == last.args.id
        b == last.args.to
        c == last.args.code
    IN /\ ~last.res.ok => bank = prev
       /\ IF a \notin Accounts(prev) THEN NotFound(last.res)
          ELSE IF WrongPin THEN Failed(last.res, InvalidPin)
          ELSE IF a = b THEN Failed(last.res, SameAccount)
          ELSE IF b \notin Accounts(prev) THEN NotFound(last.res)
          ELSE IF c \notin DOMAIN prev.currencies THEN Failed(last.res, InvalidCurrency)
          ELSE IF c \in DOMAIN Balances(prev, a) /\ Lt(Balances(prev, a)[c], last.args.amount)
               THEN Failed(last.res, InsufficientFunds)
          ELSE TRUE

\* the right PIN, a receiver that does not exist and a currency the registry
\* lacks
C16_Witness ==
  /\ Returned("transfer")
  /\ RightPin
  /\ last.args.to \notin Accounts(prev)
  /\ last.args.to # last.args.id
  /\ last.args.code \notin DOMAIN prev.currencies
  /\ NotFound(last.res)

\* account id is what it was but for its log and its balance entry for c
OnlyEntryChanged(id, c) ==
  /\ bank.accounts[id].id = prev.accounts[id].id
  /\ bank.accounts[id].owner = prev.accounts[id].owner
  /\ bank.accounts[id].pin = prev.accounts[id].pin
  /\ DOMAIN Balances(prev, id) \subseteq DOMAIN Balances(bank, id)
  /\ DOMAIN Balances(bank, id) \subseteq DOMAIN Balances(prev, id) \cup {c}
  /\ \A d \in DOMAIN Balances(prev, id) \ {c} : Balances(bank, id)[d] = Balances(prev, id)[d]

OthersUnchanged(ids) ==
  /\ Accounts(bank) = Accounts(prev)
  /\ \A id \in Accounts(prev) \ ids : bank.accounts[id] = prev.accounts[id]
  /\ bank.currencies = prev.currencies
  /\ bank.next_id = prev.next_id

C18_OthersNeverLose ==
  last.op \in {"deposit", "withdraw", "transfer"} =>
    \A x \in Accounts(prev) \ {last.args.id} : \A c \in DOMAIN Balances(prev, x) :
      /\ c \in DOMAIN Balances(bank, x)
      /\ Ge(Balances(bank, x)[c], Balances(prev, x)[c])

\* C19: a transfer with the correct PIN to a distinct existing receiver in a
\* supported currency for which the sender has no balance entry fails with
\* CurrencyBalanceNotFound for every amount, creates no balance entry and
\* appends to no log.
C19_NoEntryNoTransfer ==
  (/\ Returned("transfer")
   /\ RightPin
   /\ last.args.to \in Accounts(prev)
   /\ last.args.to # last.args.id
   /\ last.args.code \in DOMAIN prev.currencies
   /\ last.args.code \notin DOMAIN Balances(prev, last.args.id)) =>
    Failed(last.res, CurrencyBalanceNotFound) /\ bank = prev

\* such a transfer of the amount zero
C19_Witness ==
  /\ Returned("transfer")
  /\ RightPin
  /\ last.args.to \in Accounts(prev)
  /\ last.args.to # last.args.id
  /\ last.args.code \in DOMAIN prev.currencies
  /\ last.args.code \notin DOMAIN Balances(prev, last.args.id)
  /\ last.args.amount = Zero
  /\ Failed(last.res, CurrencyBalanceNotFound)

\* C20: the existing ids are exactly 1..next_id-1 and each account's id is
\* its key; no account is removed and no owner or PIN changes; every account
\* has a balance entry; every key of a balance map and the currency of every
\* log entry is one of the three registered codes; no balance entry is
\* removed.
C20_LedgerShape ==
  /\ Accounts(bank) = 1..(bank.next_id - 1)
  /\ Cardinality(DOMAIN bank.currencies) = Cardinality({"TRY", "USD", "EUR"})
  /\ DOMAIN bank.currencies = {"TRY", "USD", "EUR"}
  /\ \A id \in Accounts(bank) :
       /\ bank.accounts[id].id = id
       /\ DOMAIN Balances(bank, id) # {}
       /\ DOMAIN Balances(bank, id) \subseteq DOMAIN bank.currencies
       /\ \A i \in 1..Len(Log(bank, id)) :
            Log(bank, id)[i].currency.code \in DOMAIN bank.currencies
  /\ \A id \in Accounts(prev) :
       /\ id \in Accounts(bank)
       /\ bank.accounts[id].owner = prev.accounts[id].owner
       /\ bank.accounts[id].pin = prev.accounts[id].pin
       /\ DOMAIN Balances(prev, id) \subseteq DOMAIN Balances(bank, id)

\* the second account exists and an account holds two currencies
C20_Witness ==
  /\ bank.next_id = 3
  /\ \E id \in Accounts(bank) : Cardinality(DOMAIN Balances(bank, id)) = 2

====
